---- MODULE Spec2Model ----
(***************************************************************************)
(* Model of src/lib/dojo/useSystemCalls.ts: the useSystemCalls hook        *)
(* (createRound, joinRound, startRound over the Dojo optimistic store and  *)
(* the contract action client) and the ChallengeModal component.           *)
(***************************************************************************)
EXTENDS Integers, Sequences, FiniteSets, TLC

VARIABLES
  account,              \* useAccount().account: an address or NoAccount
  entities,             \* store: entity id -> entity (draft.entities)
  pendingTransactions,  \* store: transaction id -> recorded patches
  nextUuid,             \* source of uuidv4() values
  now,                  \* Date.now(), in milliseconds
  chainRoundId,         \* contract: id of the latest round (what getRoundId reads)
  mempool,              \* contract: createRound transactions accepted but not mined
  calls,                \* the invocations of createRound / joinRound / startRound
  modal,                \* ChallengeModal component state and its two hooks' state
  shown                 \* values rendered by the modal's display helpers

vars == <<account, entities, pendingTransactions, nextUuid, now, chainRoundId,
          mempool, calls, modal, shown>>

----------------------------------------------------------------------------
(* Bounds of the model *)

MaxCalls == 2          \* invocations of the hook's functions per behaviour
MaxRoundArg == 2       \* round ids passed to joinRound / startRound: 1..MaxRoundArg
MaxChainRound == 3     \* the contract's round counter stops here
MaxTime == 2001        \* the clock stops here
MaxJitter == 1         \* the clock is read at most this many ms off a multiple of 2000
MaxStateCode == 3      \* lifecycle codes shown: -1..MaxStateCode
MaxMantissa == 12      \* wager amounts are m * 10^e, m \in 0..MaxMantissa

(* Program constants *)

MiningDelay == 2000    \* setTimeout(resolve, 2000)
MaxPlayersDefault == 6 \* calculatePayout's default maxPlayers
ParticipantsShown == 6 \* the "/6" of the participants line
WeiDecimals == 18      \* 1e18, as a power of ten

NoAccount == 0         \* account is undefined (no wallet connected)
Addresses == {101, 102}
Genres == {"Pop"}
Errors == {"rpc-error", "tx-rejected"}
AccountError == "Account not available"
RoundArgs == 1..MaxRoundArg

----------------------------------------------------------------------------
(* Strings are sequences of one-character strings; BigInt(x.toString()) is *)
(* modelled by printing and parsing decimal digits.                        *)

Digits == <<"0", "1", "2", "3", "4", "5", "6", "7", "8", "9">>

DigitValue(c) == (CHOOSE k \in 1..10 : Digits[k] = c) - 1

IsDigit(c) == \E k \in 1..10 : Digits[k] = c

RECURSIVE NatToString(_)
NatToString(n) ==
  IF n < 10 THEN <<Digits[n + 1]>>
  ELSE NatToString(n \div 10) \o <<Digits[(n % 10) + 1]>>

\* BigNumberish.toString() of an integer
toString(n) == IF n < 0 THEN <<"-">> \o NatToString(-n) ELSE NatToString(n)

RECURSIVE ParseNat(_, _)
ParseNat(s, acc) ==
  IF s = <<>> THEN acc ELSE ParseNat(Tail(s), acc * 10 + DigitValue(Head(s)))

\* String.prototype.trim
RECURSIVE Trim(_)
Trim(s) ==
  IF s = <<>> THEN s
  ELSE IF Head(s) = " " THEN Trim(Tail(s))
  ELSE IF s[Len(s)] = " " THEN Trim(SubSeq(s, 1, Len(s) - 1))
  ELSE s

\* BigInt(string) of a decimal literal: white space around it is ignored and the
\* empty string gives 0n
BigInt(s) ==
  LET t == Trim(s)
  IN IF t = <<>> THEN 0
     ELSE IF t[1] = "-" THEN -ParseNat(Tail(t), 0)
     ELSE ParseNat(t, 0)

\* Number(bigint): exact for every magnitude below 2^53
Number(b) == b

----------------------------------------------------------------------------
(* Entity ids: getEntityIdFromKeys hashes the key list; the hash is        *)
(* modelled as injective, so an id is the key list itself.                 *)

getEntityIdFromKeys(keys) == keys

\* generateEntityId, lines 16-19
generateEntityId(acct) == getEntityIdFromKeys(<<acct>>)

Has(ents, id) == id \in DOMAIN ents

Put(ents, id, e) == [x \in (DOMAIN ents) \cup {id} |-> IF x = id THEN e ELSE ents[x]]

Del(ents, id) == [x \in (DOMAIN ents) \ {id} |-> ents[x]]

\* the Rounds entity written by createRound, lines 49-69
RoundsEntity(id, roundId, creator, genre, t) ==
  [entityId |-> id, model |-> "Rounds", round_id |-> roundId, creator |-> creator,
   genre |-> genre, wager_amount |-> 0, start_time |-> t, state |-> 0,
   end_time |-> 0, next_card_index |-> 0, players_count |-> 1,
   ready_players_count |-> 0]

\* the RoundCreated entity written by createRound, lines 75-85
RoundCreatedEntity(id, roundId, creator) ==
  [entityId |-> id, model |-> "RoundCreated", round_id |-> roundId,
   creator |-> creator]

\* the RoundPlayer entity written by joinRound, lines 114-125
RoundPlayerEntity(id, addr, roundId) ==
  [entityId |-> id, model |-> "RoundPlayer", player_to_round_id |-> <<addr, roundId>>,
   joined |-> TRUE, ready_state |-> FALSE]

----------------------------------------------------------------------------
(* The Dojo store's optimistic-update API.  applyOptimisticUpdate runs the *)
(* recipe on a draft and records the patches and inverse patches of what   *)
(* the recipe changed; revertOptimisticUpdate applies the inverse patches  *)
(* to the current state; confirmTransaction drops the record.              *)

NoEntity == [model |-> "none"]

AddPatch(id, e) == [op |-> "add", id |-> id, field |-> "", entity |-> e, value |-> 0]

RemovePatch(id) ==
  [op |-> "remove", id |-> id, field |-> "", entity |-> NoEntity, value |-> 0]

ReplacePatch(id, f, v) ==
  [op |-> "replace", id |-> id, field |-> f, entity |-> NoEntity, value |-> v]

ChangedFields(old, new, id) == {f \in DOMAIN new[id] : old[id][f] # new[id][f]}

\* produceWithPatches: the patches that turn `old` into `new`, one per changed
\* path (an added entity, a removed entity, a changed field of a kept entity)
Diff(old, new) ==
  {AddPatch(id, new[id]) : id \in (DOMAIN new) \ (DOMAIN old)}
  \cup {RemovePatch(id) : id \in (DOMAIN old) \ (DOMAIN new)}
  \cup UNION {{ReplacePatch(id, f, new[id][f]) : f \in ChangedFields(old, new, id)} :
                id \in (DOMAIN old) \cap (DOMAIN new)}

\* applyPatches: "add" sets the entity, "remove" deletes it, "replace" sets one
\* field of an entity that is present
ApplyPatches(ents, ps) ==
  LET added == {p \in ps : p.op = "add"}
      dom == ((DOMAIN ents) \cup {p.id : p \in added})
               \ {p.id : p \in {q \in ps : q.op = "remove"}}
      Field(id, f) ==
        IF \E p \in ps : p.op = "replace" /\ p.id = id /\ p.field = f
          THEN (CHOOSE p \in ps : p.op = "replace" /\ p.id = id /\ p.field = f).value
          ELSE ents[id][f]
  IN [id \in dom |->
        IF \E p \in added : p.id = id
          THEN (CHOOSE p \in added : p.id = id).entity
          ELSE [f \in DOMAIN ents[id] |-> Field(id, f)]]

Store(ents, pend) == [entities |-> ents, pendingTransactions |-> pend]

\* state.applyOptimisticUpdate(transactionId, recipe); `next` is the draft after
\* the recipe ran on st.entities
applyOptimisticUpdate(st, tx, next) ==
  Store(next,
        Put(st.pendingTransactions, tx,
            [transactionId |-> tx,
             patches |-> Diff(st.entities, next),
             inversePatches |-> Diff(next, st.entities)]))

\* state.revertOptimisticUpdate(transactionId): nothing to do for a transaction
\* that is not pending
revertOptimisticUpdate(st, tx) ==
  IF Has(st.pendingTransactions, tx)
    THEN Store(ApplyPatches(st.entities, st.pendingTransactions[tx].inversePatches),
               Del(st.pendingTransactions, tx))
    ELSE st

\* state.confirmTransaction(transactionId)
confirmTransaction(st, tx) == Store(st.entities, Del(st.pendingTransactions, tx))

----------------------------------------------------------------------------
(* The three recipes handed to applyOptimisticUpdate. *)

\* createRound's recipe, lines 45-87: t is Date.now()
createRoundDraft(ents, actualRoundId, creator, genre, t) ==
  LET roundsEntityId == getEntityIdFromKeys(<<actualRoundId>>)
      eventEntityId == getEntityIdFromKeys(<<actualRoundId, t>>)
      withRound ==
        IF ~Has(ents, roundsEntityId)
          THEN Put(ents, roundsEntityId,
                   RoundsEntity(roundsEntityId, actualRoundId, creator, genre, t))
          ELSE ents
  IN IF ~Has(withRound, eventEntityId)
       THEN Put(withRound, eventEntityId,
                RoundCreatedEntity(eventEntityId, actualRoundId, creator))
       ELSE withRound

\* joinRound's recipe, lines 112-127
joinRoundDraft(ents, entityId, addr, roundId) ==
  IF ~Has(ents, entityId)
    THEN Put(ents, entityId, RoundPlayerEntity(entityId, addr, roundId))
    ELSE ents

\* startRound's recipe, lines 162-171: t is Date.now()
startRoundDraft(ents, roundId, t) ==
  LET roundsEntityId == getEntityIdFromKeys(<<roundId>>)
  IN IF Has(ents, roundsEntityId) /\ ents[roundsEntityId].model = "Rounds"
       THEN [ents EXCEPT ![roundsEntityId].state = 1,
                         ![roundsEntityId].start_time = t]
       ELSE ents

----------------------------------------------------------------------------
(* Invocations.  Each call of createRound / joinRound / startRound is one   *)
(* record of `calls`; pc is the await the invocation is suspended at.  The  *)
(* fields trace, rejected, pre, alone, mined and at are history: the store  *)
(* operations, submissions, log lines, throws and returns of the invocation *)
(* in program order, the error its remote action rejected with, the entity  *)
(* store when it began, whether it ran without any other invocation in      *)
(* flight, the id the contract gave its round, and the Date.now() that a    *)
(* createRound's recipe read.                                               *)

Ev(op, tx, what) == [op |-> op, tx |-> tx, what |-> what]

NoPre == <<>>

InFlight(c) == c.pc # "done"

NewCall(kind, acct, tx, arg, genre, pc, trace, outcome, err) ==
  [kind |-> kind, pc |-> pc, acct |-> acct, tx |-> tx, arg |-> arg, genre |-> genre,
   due |-> 0, mined |-> 0, trace |-> trace, outcome |-> outcome, err |-> err,
   value |-> 0, rejected |-> "", at |-> 0,
   pre |-> IF pc = "done" THEN NoPre ELSE entities,
   alone |-> \A k \in 1..Len(calls) : ~InFlight(calls[k])]

\* the other invocations learn that they are no longer alone
Started(c) ==
  Append([k \in 1..Len(calls) |->
            IF InFlight(calls[k]) /\ InFlight(c)
              THEN [calls[k] EXCEPT !.alone = FALSE] ELSE calls[k]], c)

\* an account check that comes after the transaction id was drawn and the
\* action was handed to the client
RefusedAfterSubmit(kind, arg, genre) ==
  /\ calls' = Started(NewCall(kind, NoAccount, nextUuid, arg, genre, "done",
                              <<Ev("submit", nextUuid, kind)>>, "threw", AccountError))
  /\ nextUuid' = nextUuid + 1
  /\ UNCHANGED <<entities, pendingTransactions>>

\* `if (!account) throw new Error("Account not available")`, lines 22, 101, 152
Refused(kind, arg, genre) ==
  /\ calls' = Started(NewCall(kind, NoAccount, 0, arg, genre, "done", <<>>,
                              "threw", AccountError))
  /\ UNCHANGED <<entities, pendingTransactions, nextUuid>>

Current == Store(entities, pendingTransactions)

SetStore(st) ==
  /\ entities' = st.entities
  /\ pendingTransactions' = st.pendingTransactions

\* what a stretch of code did: the store it left, its events in program order,
\* and how the invocation ended
Result(st, events, outcome, value, err) ==
  [store |-> st, events |-> events, outcome |-> outcome, value |-> value, err |-> err]

\* invocation i ends as `res` says; `rejected` is the error of its remote action
Settle(i, res, rejected) ==
  /\ SetStore(res.store)
  /\ calls' = [calls EXCEPT ![i] =
       [@ EXCEPT !.pc = "done", !.outcome = res.outcome, !.value = res.value,
                 !.err = res.err, !.trace = @ \o res.events, !.rejected = rejected,
                 !.at = IF calls[i].kind = "createRound" /\ res.outcome = "returned" THEN now ELSE 0,
                 !.pre = NoPre]]

\* BigInt(roundIdResult[0] || roundIdResult.toString()), line 41
extractRoundId(roundIdResult) == BigInt(toString(roundIdResult))

\* createRound after getRoundId resolved, lines 41-89 and 95-97
createRoundTail(st, tx, acct, genre, roundIdResult, t) ==
  LET actualRoundId == extractRoundId(roundIdResult)
  IN Result(confirmTransaction(
              applyOptimisticUpdate(st, tx,
                createRoundDraft(st.entities, actualRoundId, acct, genre, t)), tx),
            <<Ev("apply", tx, ""), Ev("return", tx, ""), Ev("confirm", tx, "")>>,
            "returned", actualRoundId, "")

\* a catch block that throws a new error in place of the one it caught
createRoundCatchWrapped(st, tx, e) ==
  Result(confirmTransaction(revertOptimisticUpdate(st, tx), tx),
         <<Ev("revert", tx, ""), Ev("log", tx, e), Ev("throw", tx, "wrapped"),
           Ev("confirm", tx, "")>>,
         "threw", 0, "wrapped")

\* createRound's catch and finally blocks, lines 91-97
createRoundCatch(st, tx, e) ==
  Result(confirmTransaction(revertOptimisticUpdate(st, tx), tx),
         <<Ev("revert", tx, ""), Ev("log", tx, e), Ev("throw", tx, e),
           Ev("confirm", tx, "")>>,
         "threw", 0, e)

\* joinRound from its transaction id to its await, lines 102-135
joinRoundHead(st, tx, acct, roundId) ==
  LET entityId == generateEntityId(acct)
  IN Result(applyOptimisticUpdate(st, tx,
              joinRoundDraft(st.entities, entityId, acct, roundId)),
            <<Ev("apply", tx, ""), Ev("submit", tx, "joinRound")>>,
            "pending", 0, "")

\* joinRound after its await resolved, lines 136 and 146-148
joinRoundTail(st, tx) ==
  Result(confirmTransaction(st, tx),
         <<Ev("return", tx, ""), Ev("confirm", tx, "")>>, "returned", 0, "")

\* a catch block that forgets the revert
joinRoundCatchNoRevert(st, tx, e) ==
  Result(confirmTransaction(st, tx),
         <<Ev("log", tx, e), Ev("throw", tx, e), Ev("confirm", tx, "")>>,
         "threw", 0, e)

\* joinRound's catch and finally blocks, lines 137-148
joinRoundCatch(st, tx, e) ==
  Result(confirmTransaction(revertOptimisticUpdate(st, tx), tx),
         <<Ev("log", tx, e), Ev("revert", tx, ""), Ev("throw", tx, e),
           Ev("confirm", tx, "")>>,
         "threw", 0, e)

\* startRound from its transaction id to its await, lines 153-175
startRoundHead(st, tx, roundId, t) ==
  Result(applyOptimisticUpdate(st, tx, startRoundDraft(st.entities, roundId, t)),
         <<Ev("apply", tx, ""), Ev("submit", tx, "startRound")>>,
         "pending", 0, "")

\* a success path without the finally block
startRoundTailNoConfirm(st, tx) ==
  Result(st, <<Ev("return", tx, "")>>, "returned", 0, "")

\* startRound after its await resolved, lines 176 and 181-183
startRoundTail(st, tx) ==
  Result(confirmTransaction(st, tx),
         <<Ev("return", tx, ""), Ev("confirm", tx, "")>>, "returned", 0, "")

\* startRound's catch and finally blocks, lines 177-183
startRoundCatch(st, tx, e) ==
  Result(confirmTransaction(revertOptimisticUpdate(st, tx), tx),
         <<Ev("log", tx, e), Ev("revert", tx, ""), Ev("throw", tx, e),
           Ev("confirm", tx, "")>>,
         "threw", 0, e)

\* createRound up to its first await, lines 21-29
CallCreateRound(g) ==
  /\ Len(calls) < MaxCalls
  /\ IF account = NoAccount
       THEN Refused("createRound", 0, g)
       ELSE /\ nextUuid' = nextUuid + 1
            /\ calls' = Started(NewCall("createRound", account, nextUuid, 0, g,
                                        "await_create",
                                        <<Ev("submit", nextUuid, "createRound")>>,
                                        "pending", ""))
            /\ UNCHANGED <<entities, pendingTransactions>>
  /\ UNCHANGED <<account, now, chainRoundId, mempool, modal, shown>>

\* client.actions.createRound resolved; the 2000 ms wait begins, lines 29-33
CreateRoundResolves(i) ==
  /\ calls[i].pc = "await_create"
  /\ calls' = [calls EXCEPT ![i].pc = "sleep", ![i].due = now + MiningDelay]
  /\ mempool' = mempool \cup {i}
  /\ UNCHANGED <<account, entities, pendingTransactions, nextUuid, now, chainRoundId,
                 modal, shown>>

\* client.actions.createRound rejected, lines 29, 91-97
CreateRoundRejects(i, e) ==
  /\ calls[i].pc = "await_create"
  /\ Settle(i, createRoundCatch(Current, calls[i].tx, e), e)
  /\ UNCHANGED <<account, nextUuid, now, chainRoundId, mempool, modal, shown>>

\* the wait is over; getRoundId is submitted, lines 33-37
TimerFires(i) ==
  /\ calls[i].pc = "sleep"
  /\ now >= calls[i].due
  /\ calls' = [calls EXCEPT ![i].pc = "await_getid",
                            ![i].trace = @ \o <<Ev("submit", calls[i].tx, "getRoundId")>>]
  /\ UNCHANGED <<account, entities, pendingTransactions, nextUuid, now, chainRoundId,
                 mempool, modal, shown>>

\* getRoundId resolved with the contract's latest round id, lines 37-89, 95-97
GetRoundIdResolves(i) ==
  /\ calls[i].pc = "await_getid"
  /\ Settle(i, createRoundTail(Current, calls[i].tx, calls[i].acct, calls[i].genre,
                               chainRoundId, now), "")
  /\ UNCHANGED <<account, nextUuid, now, chainRoundId, mempool, modal, shown>>

\* getRoundId rejected, lines 37, 91-97
GetRoundIdRejects(i, e) ==
  /\ calls[i].pc = "await_getid"
  /\ Settle(i, createRoundCatch(Current, calls[i].tx, e), e)
  /\ UNCHANGED <<account, nextUuid, now, chainRoundId, mempool, modal, shown>>

\* joinRound up to its await, lines 100-135
joinRoundBegin(roundId) ==
  IF account = NoAccount
    THEN Refused("joinRound", roundId, "")
    ELSE LET head == joinRoundHead(Current, nextUuid, account, roundId)
         IN /\ nextUuid' = nextUuid + 1
            /\ SetStore(head.store)
            /\ calls' = Started(NewCall("joinRound", account, nextUuid, roundId, "",
                                        "await_join", head.events, "pending", ""))

\* a direct call of the hook's joinRound
CallJoinRound(roundId) ==
  /\ Len(calls) < MaxCalls
  /\ joinRoundBegin(roundId)
  /\ UNCHANGED <<account, now, chainRoundId, mempool, modal, shown>>

\* client.actions.joinRound resolved, lines 135-136, 146-148
JoinRoundResolves(i) ==
  /\ calls[i].pc = "await_join"
  /\ Settle(i, joinRoundTail(Current, calls[i].tx), "")
  /\ UNCHANGED <<account, nextUuid, now, chainRoundId, mempool, modal, shown>>

\* client.actions.joinRound rejected, lines 137-148
JoinRoundRejects(i, e) ==
  /\ calls[i].pc = "await_join"
  /\ Settle(i, joinRoundCatch(Current, calls[i].tx, e), e)
  /\ UNCHANGED <<account, nextUuid, now, chainRoundId, mempool, modal, shown>>

\* startRound up to its await, lines 151-175
CallStartRound(roundId) ==
  /\ Len(calls) < MaxCalls
  /\ IF account = NoAccount
       THEN Refused("startRound", roundId, "")
       ELSE LET head == startRoundHead(Current, nextUuid, roundId, now)
            IN /\ nextUuid' = nextUuid + 1
               /\ SetStore(head.store)
               /\ calls' = Started(NewCall("startRound", account, nextUuid, roundId, "",
                                           "await_start", head.events, "pending", ""))
  /\ UNCHANGED <<account, now, chainRoundId, mempool, modal, shown>>

\* client.actions.startRound resolved, lines 175-176, 181-183
StartRoundResolves(i) ==
  /\ calls[i].pc = "await_start"
  /\ Settle(i, startRoundTail(Current, calls[i].tx), "")
  /\ UNCHANGED <<account, nextUuid, now, chainRoundId, mempool, modal, shown>>

\* client.actions.startRound rejected, lines 177-183
StartRoundRejects(i, e) ==
  /\ calls[i].pc = "await_start"
  /\ Settle(i, startRoundCatch(Current, calls[i].tx, e), e)
  /\ UNCHANGED <<account, nextUuid, now, chainRoundId, mempool, modal, shown>>

----------------------------------------------------------------------------
(* The environment: the contract behind client.actions, the clock, the     *)
(* wallet.                                                                 *)

\* the contract executes an accepted createRound transaction: the round counter
\* advances and the new value is that round's id
Mine(i) ==
  /\ i \in mempool
  /\ chainRoundId < MaxChainRound
  /\ chainRoundId' = chainRoundId + 1
  /\ mempool' = mempool \ {i}
  /\ calls' = [calls EXCEPT ![i].mined = chainRoundId + 1]
  /\ UNCHANGED <<account, entities, pendingTransactions, nextUuid, now, modal, shown>>

\* another client's createRound is executed by the contract
OtherClientCreates ==
  /\ chainRoundId < MaxChainRound
  /\ chainRoundId' = chainRoundId + 1
  /\ UNCHANGED <<account, entities, pendingTransactions, nextUuid, now, mempool, calls,
                 modal, shown>>

\* time passes
Tick(d) ==
  /\ now + d <= MaxTime
  /\ (now + d) % MiningDelay <= MaxJitter
  /\ now' = now + d
  /\ UNCHANGED <<account, entities, pendingTransactions, nextUuid, chainRoundId, mempool,
                 calls, modal, shown>>

\* the wallet connects, disconnects or switches account
SetAccount(a) ==
  /\ a # account
  /\ account' = a
  /\ UNCHANGED <<entities, pendingTransactions, nextUuid, now, chainRoundId, mempool,
                 calls, modal, shown>>

----------------------------------------------------------------------------
(* ChallengeModal.  `modal` holds the component's useState cells (code,    *)
(* roundId), the modal store's open flag, and what the useJoinRound and    *)
(* useRoundQuery hooks expose (isJoining; round, isPlayer, playersCount,   *)
(* isLoadingRound, error).  joinCall is the joinRound invocation that      *)
(* handleJoin awaits and queriedId the id handed to queryRound; logged is   *)
(* what handleJoin wrote to console.error and escaped an error it let out. *)

NullId == -1           \* useState<bigint | null>(null)

NoRound == [loaded |-> FALSE, round_id |-> 0, state |-> 0]

\* the code strings a user types
Codes == {<<>>, <<"x">>, <<" ", "1">>} \cup {toString(n) : n \in 0..MaxRoundArg}

\* a bigint | null in a boolean context: null and 0n are falsy
Truthy(id) == id # NullId /\ id # 0

\* const isLoading = isJoining || isLoadingRound, line 211
isLoading(m) == m.isJoining \/ m.isLoadingRound

\* useJoinRound().validateRoundId: a non-empty run of decimal digits is valid
validateRoundId(value) ==
  [isValid |-> value # <<>> /\ \A k \in 1..Len(value) : IsDigit(value[k])]

\* round.round.state?.toString() || '0', lines 362 and 371
StateText(round) == IF toString(round.state) = <<>> THEN <<"0">> ELSE toString(round.state)

\* {!round && roundId ? <Load Challenge> : round ? <Join> : null}, lines 345-377
LoadRendered(m) == ~m.round.loaded /\ Truthy(m.roundId)

JoinRendered(m) == ~LoadRendered(m) /\ m.round.loaded

\* disabled={isLoading || !roundId}, line 348
LoadDisabled(m) == isLoading(m) \/ ~Truthy(m.roundId)

\* a disabled expression that forgets isPlayer
JoinDisabledIgnoresPlayer(m) ==
  isLoading(m) \/ Number(BigInt(StateText(m.round))) # 0

\* disabled={isLoading || isPlayer || Number(BigInt(...)) !== 0}, line 362
JoinDisabled(m) ==
  isLoading(m) \/ m.isPlayer \/ Number(BigInt(StateText(m.round))) # 0

\* handleCodeChange, lines 213-230 (the input is disabled while isLoading)
HandleCodeChange(value) ==
  /\ modal.open
  /\ ~isLoading(modal)
  /\ modal' = [modal EXCEPT
       !.code = value,
       !.roundId = IF validateRoundId(Trim(value)).isValid THEN BigInt(value) ELSE NullId]
  /\ UNCHANGED <<account, entities, pendingTransactions, nextUuid, now, chainRoundId,
                 mempool, calls, shown>>

\* a click on Load Challenge: handleQuery, lines 232-237, and queryRound's start
HandleQuery ==
  /\ modal.open
  /\ LoadRendered(modal)
  /\ ~LoadDisabled(modal)
  /\ Truthy(modal.roundId)
  /\ modal' = [modal EXCEPT !.isLoadingRound = TRUE, !.queriedId = modal.roundId,
                            !.error = ""]
  /\ UNCHANGED <<account, entities, pendingTransactions, nextUuid, now, chainRoundId,
                 mempool, calls, shown>>

\* queryRound found the round
QueryResolves(st, isPlayer, count) ==
  /\ modal.open
  /\ modal.isLoadingRound
  /\ modal' = [modal EXCEPT
       !.isLoadingRound = FALSE,
       !.round = [loaded |-> TRUE, round_id |-> modal.queriedId, state |-> st],
       !.isPlayer = isPlayer,
       !.playersCount = count]
  /\ UNCHANGED <<account, entities, pendingTransactions, nextUuid, now, chainRoundId,
                 mempool, calls, shown>>

\* queryRound failed: no round, an error message
QueryFails(e) ==
  /\ modal.open
  /\ modal.isLoadingRound
  /\ modal' = [modal EXCEPT !.isLoadingRound = FALSE, !.error = e]
  /\ UNCHANGED <<account, entities, pendingTransactions, nextUuid, now, chainRoundId,
                 mempool, calls, shown>>

\* a click on the join button: handleJoin up to its await, lines 239-244
HandleJoin ==
  /\ modal.open
  /\ JoinRendered(modal)
  /\ ~JoinDisabled(modal)
  /\ Len(calls) < MaxCalls
  /\ IF ~Truthy(modal.roundId)
       THEN UNCHANGED <<modal, calls, entities, pendingTransactions, nextUuid>>
       ELSE /\ joinRoundBegin(modal.roundId)
            /\ modal' = [modal EXCEPT !.isJoining = TRUE, !.joinCall = Len(calls) + 1]
  /\ UNCHANGED <<account, now, chainRoundId, mempool, shown>>

\* a handleJoin that closes the modal in a finally block and rethrows
HandleJoinSettlesClosesAlways ==
  /\ modal.joinCall # 0
  /\ calls[modal.joinCall].pc = "done"
  /\ modal' = [modal EXCEPT
       !.isJoining = FALSE,
       !.joinCall = 0,
       !.open = FALSE,
       !.escaped = IF calls[modal.joinCall].outcome = "threw"
                     THEN calls[modal.joinCall].err ELSE @]
  /\ UNCHANGED <<account, entities, pendingTransactions, nextUuid, now, chainRoundId,
                 mempool, calls, shown>>

\* handleJoin after its await, lines 245-248
HandleJoinSettles ==
  /\ modal.joinCall # 0
  /\ calls[modal.joinCall].pc = "done"
  /\ modal' = [modal EXCEPT
       !.isJoining = FALSE,
       !.joinCall = 0,
       !.open = IF calls[modal.joinCall].outcome = "returned" THEN FALSE ELSE @,
       !.logged = IF calls[modal.joinCall].outcome = "threw"
                    THEN calls[modal.joinCall].err ELSE @]
  /\ UNCHANGED <<account, entities, pendingTransactions, nextUuid, now, chainRoundId,
                 mempool, calls, shown>>

\* a click on Cancel, line 341
Cancel ==
  /\ modal.open
  /\ ~isLoading(modal)
  /\ modal' = [modal EXCEPT !.open = FALSE]
  /\ UNCHANGED <<account, entities, pendingTransactions, nextUuid, now, chainRoundId,
                 mempool, calls, shown>>

----------------------------------------------------------------------------
(* The modal's display helpers.  Token amounts (wei, around 10^18) exceed    *)
(* 32-bit integers, so an amount is a decimal [m, e] standing for m * 10^e, *)
(* kept canonical (m has no trailing zero; zero is [0, 0]).  A negative e   *)
(* is a decimal fraction.  Number() and the division by 1e18 are taken as   *)
(* exact on these decimals.                                                 *)

RECURSIVE Norm(_)
Norm(d) ==
  IF d.m = 0 THEN [m |-> 0, e |-> 0]
  ELSE IF d.m % 10 = 0 THEN Norm([m |-> d.m \div 10, e |-> d.e + 1])
  ELSE d

Dec(m, e) == Norm([m |-> m, e |-> e])

RECURSIVE Zeros(_)
Zeros(n) == IF n = 0 THEN <<>> ELSE <<"0">> \o Zeros(n - 1)

\* amount.toString() of a non-negative integer amount
DecToString(d) == NatToString(d.m) \o Zeros(d.e)

\* BigInt(string) of a decimal literal of any length
RECURSIVE BigIntDec(_)
BigIntDec(s) ==
  IF Len(s) > 1 /\ s[Len(s)] = "0"
    THEN LET front == BigIntDec(SubSeq(s, 1, Len(s) - 1))
         IN Dec(front.m, front.e + 1)
    ELSE Dec(BigInt(s), 0)

\* Number(bigint) on an amount
NumberDec(d) == d

DecMul(d, k) == Dec(d.m * k, d.e)

DecDivPow10(d, k) == Dec(d.m, d.e - k)

\* formatWagerAmount, lines 251-253
formatWagerAmount(amount) ==
  DecDivPow10(NumberDec(BigIntDec(DecToString(amount))), WeiDecimals)

\* a payout that is scaled by 1e17
calculatePayoutOtherDivisor(wagerAmount, maxPlayers) ==
  DecDivPow10(DecMul(NumberDec(BigIntDec(DecToString(wagerAmount))), maxPlayers),
              WeiDecimals - 1)

\* calculatePayout, lines 255-257
calculatePayout(wagerAmount, maxPlayers) ==
  DecDivPow10(DecMul(NumberDec(BigIntDec(DecToString(wagerAmount))), maxPlayers),
              WeiDecimals)

\* a switch without its `case 2`
getRoundStatusNoEnded(state) ==
  LET code == Number(BigInt(toString(state)))
  IN CASE code = 0 -> [text |-> "Waiting for players", color |-> "text-green-500"]
       [] code = 1 -> [text |-> "In progress", color |-> "text-yellow-500"]
       [] OTHER -> [text |-> "Unknown", color |-> "text-gray-500"]

\* getRoundStatus, lines 259-270
getRoundStatus(state) ==
  LET code == Number(BigInt(toString(state)))
  IN CASE code = 0 -> [text |-> "Waiting for players", color |-> "text-green-500"]
       [] code = 1 -> [text |-> "In progress", color |-> "text-yellow-500"]
       [] code = 2 -> [text |-> "Ended", color |-> "text-red-500"]
       [] OTHER -> [text |-> "Unknown", color |-> "text-gray-500"]

WagerExponents == {0, 15, 17, 18}

Wagers == {Dec(m, e) : m \in 0..MaxMantissa, e \in WagerExponents}

NothingShown ==
  [rendered |-> FALSE, state |-> 0, wager_amount |-> Dec(0, 0), wager |-> Dec(0, 0),
   participants |-> <<0, 0>>, payout |-> Dec(0, 0), status |-> getRoundStatus(0)]

\* the round card, lines 295-338, for a loaded round
RenderCard(st, wagerAmount, playersCount) ==
  /\ shown' = [rendered |-> TRUE, state |-> st, wager_amount |-> wagerAmount,
               wager |-> formatWagerAmount(wagerAmount),
               participants |-> <<playersCount, ParticipantsShown>>,
               payout |-> calculatePayout(wagerAmount, MaxPlayersDefault),
               status |-> getRoundStatus(st)]
  /\ UNCHANGED <<account, entities, pendingTransactions, nextUuid, now, chainRoundId,
                 mempool, calls, modal>>

----------------------------------------------------------------------------
(* The store at start-up holds what the indexer has synchronised: nothing, *)
(* or the Rounds entity of round 1 in one of its lifecycle states.         *)

SyncedRound(st) ==
  [RoundsEntity(getEntityIdFromKeys(<<1>>), 1, 102, "Pop", 0) EXCEPT !.state = st]

InitialStores ==
  {<<>>} \cup {Put(<<>>, getEntityIdFromKeys(<<1>>), SyncedRound(st)) : st \in 0..2}

ModalInit ==
  [open |-> TRUE, code |-> <<>>, roundId |-> NullId, isJoining |-> FALSE,
   isLoadingRound |-> FALSE, round |-> NoRound, isPlayer |-> FALSE, playersCount |-> 0,
   error |-> "", joinCall |-> 0, queriedId |-> NullId, logged |-> "", escaped |-> ""]

Init ==
  /\ account \in Addresses \cup {NoAccount}
  /\ entities \in InitialStores
  /\ pendingTransactions = <<>>
  /\ nextUuid = 1
  /\ now = 0
  /\ chainRoundId = 1
  /\ mempool = {}
  /\ calls = <<>>
  /\ modal = ModalInit
  /\ shown = NothingShown

Next ==
  \/ \E g \in Genres : CallCreateRound(g)
  \/ \E r \in RoundArgs : CallJoinRound(r)
  \/ \E r \in RoundArgs : CallStartRound(r)
  \/ \E i \in 1..Len(calls) :
       \/ CreateRoundResolves(i)
       \/ TimerFires(i)
       \/ GetRoundIdResolves(i)
       \/ JoinRoundResolves(i)
       \/ StartRoundResolves(i)
       \/ Mine(i)
       \/ \E e \in Errors :
            \/ CreateRoundRejects(i, e)
            \/ GetRoundIdRejects(i, e)
            \/ JoinRoundRejects(i, e)
            \/ StartRoundRejects(i, e)
  \/ OtherClientCreates
  \/ \E d \in {1, MiningDelay} : Tick(d)
  \/ \E a \in Addresses \cup {NoAccount} : SetAccount(a)

Spec == Init /\ [][Next]_vars

\* the modal, the join it starts and the wallet
ModalNext ==
  \/ \E value \in Codes : HandleCodeChange(value)
  \/ HandleQuery
  \/ \E st \in -1..MaxStateCode, p \in BOOLEAN, n \in {1, ParticipantsShown} :
       QueryResolves(st, p, n)
  \/ \E e \in Errors : QueryFails(e)
  \/ HandleJoin
  \/ HandleJoinSettles
  \/ Cancel
  \/ \E i \in 1..Len(calls) :
       \/ JoinRoundResolves(i)
       \/ \E e \in Errors : JoinRoundRejects(i, e)
  \/ \E a \in Addresses \cup {NoAccount} : SetAccount(a)

ModalSpec == Init /\ [][ModalNext]_vars

\* the round card rendered for every round the query can deliver
DisplayNext ==
  \E st \in -1..MaxStateCode, w \in Wagers, n \in {1, ParticipantsShown} :
    RenderCard(st, w, n)

\* the card does not read the store or the wallet
DisplayInit == Init /\ account = NoAccount /\ entities = <<>>

DisplaySpec == DisplayInit /\ [][DisplayNext]_vars

----------------------------------------------------------------------------
(* Properties of the hook's three functions. *)

Positions(tr, op) == {k \in 1..Len(tr) : tr[k].op = op}

StoreOps(tr) == {k \in 1..Len(tr) : tr[k].op \in {"apply", "revert", "confirm"}}

RemoteActions == {"createRound", "getRoundId", "joinRound", "startRound"}

Submissions(tr, name) == {k \in Positions(tr, "submit") : tr[k].what = name}

Done(c) == c.pc = "done"

PassedAccountCheck(c) == c.acct # NoAccount

\* invocation i ends in this step, its remote action having rejected
FailsNow(i) == InFlight(calls[i]) /\ Done(calls'[i]) /\ calls'[i].rejected # ""

\* C1: when createRound, joinRound or startRound ends because a remote action
\* rejected, it has called revertOptimisticUpdate with the transaction id of its
\* own patch, and if no other invocation was in flight during it, the entity
\* store it leaves is the entity store it found.
C1_FailureRevertsPatch ==
  [][\A i \in 1..Len(calls) :
       FailsNow(i) =>
         /\ \E k \in Positions(calls'[i].trace, "revert") :
              /\ calls'[i].trace[k].tx = calls[i].tx
              /\ \A j \in Positions(calls'[i].trace, "apply") :
                   calls'[i].trace[j].tx = calls'[i].trace[k].tx
         /\ calls[i].alone => entities' = calls[i].pre]_vars

\* a joinRound that ran alone, added its record, failed and took it back
C1_Witness ==
  \E i \in 1..Len(calls) :
    /\ calls[i].kind = "joinRound"
    /\ Done(calls[i])
    /\ calls[i].rejected # ""
    /\ calls[i].alone
    /\ Positions(calls[i].trace, "apply") # {}
    /\ ~Has(entities, generateEntityId(calls[i].acct))

\* C2: every invocation that passed the account check calls confirmTransaction
\* exactly once, with its own transaction id, as its last store operation, on
\* success and on failure; once all invocations are over no transaction is
\* pending.
C2_ConfirmOnceAndLast ==
  /\ \A i \in 1..Len(calls) :
       (Done(calls[i]) /\ PassedAccountCheck(calls[i])) =>
         LET tr == calls[i].trace
             confirms == Positions(tr, "confirm")
         IN /\ Cardinality(confirms) = 1
            /\ \A k \in confirms : tr[k].tx = calls[i].tx
            /\ \A k \in StoreOps(tr) : \A c \in confirms : k <= c
            /\ ~Has(pendingTransactions, calls[i].tx)
  /\ (\A i \in 1..Len(calls) : Done(calls[i])) => DOMAIN pendingTransactions = {}

\* two invocations are over, one returned and one failed remotely
C2_Witness ==
  /\ \A i \in 1..Len(calls) : Done(calls[i])
  /\ \E i, j \in 1..Len(calls) :
       /\ calls[i].outcome = "returned"
       /\ calls[j].rejected # ""
       /\ Positions(calls[j].trace, "revert") # {}
       /\ PassedAccountCheck(calls[i]) /\ PassedAccountCheck(calls[j])

\* C3: when a remote action rejects, the invocation ends by throwing that very
\* error, the throw comes after revertOptimisticUpdate, and no remote action is
\* submitted more than once by an invocation.
C3_RethrowAfterRevertNoRetry ==
  \A i \in 1..Len(calls) :
    LET c == calls[i] IN
      /\ (Done(c) /\ c.rejected # "") =>
           /\ c.outcome = "threw"
           /\ c.err = c.rejected
           /\ \E r \in Positions(c.trace, "revert"), t \in Positions(c.trace, "throw") :
                r < t /\ c.trace[t].what = c.rejected
      /\ \A name \in RemoteActions : Cardinality(Submissions(c.trace, name)) <= 1

\* a createRound whose getRoundId rejected, after its createRound was accepted
C3_Witness ==
  \E i \in 1..Len(calls) :
    /\ calls[i].kind = "createRound"
    /\ Done(calls[i])
    /\ calls[i].rejected # ""
    /\ Submissions(calls[i].trace, "createRound") # {}
    /\ Submissions(calls[i].trace, "getRoundId") # {}

----------------------------------------------------------------------------
(* Properties of the ChallengeModal. *)

\* the conditions under which a join is permitted
JoinPermitted(m) ==
  /\ m.round.loaded
  /\ m.round.state = 0
  /\ ~m.isPlayer
  /\ ~m.isJoining /\ ~m.isLoadingRound

\* the join button is on screen and can be clicked
JoinButtonEnabled(m) == m.open /\ JoinRendered(m) /\ ~JoinDisabled(m)

\* this step invokes joinRound
JoinInvokedNow ==
  /\ Len(calls') = Len(calls) + 1
  /\ calls'[Len(calls')].kind = "joinRound"

\* C4: whenever no round is loaded, or the loaded round's state is not 0, or the
\* user is already a player of it, or a query or a join is in progress, the join
\* button cannot be clicked; and joinRound is invoked only from a state in which
\* none of these is the case.
C4_JoinOnlyWhenPermitted ==
  /\ [](~JoinPermitted(modal) => ~JoinButtonEnabled(modal))
  /\ [][JoinInvokedNow => JoinPermitted(modal)]_vars

\* a join is in progress: joinRound was invoked and the button is now disabled
C4_Witness ==
  /\ modal.open
  /\ modal.isJoining
  /\ JoinRendered(modal)
  /\ JoinDisabled(modal)
  /\ \E i \in 1..Len(calls) : calls[i].kind = "joinRound" /\ InFlight(calls[i])

\* C7: getRoundStatus gives 'Waiting for players' for 0, 'In progress' for 1,
\* 'Ended' for 2 and 'Unknown' for every other code.
C7_StatusText ==
  shown.rendered =>
    shown.status.text =
      (IF shown.state = 0 THEN "Waiting for players"
       ELSE IF shown.state = 1 THEN "In progress"
       ELSE IF shown.state = 2 THEN "Ended"
       ELSE "Unknown")

\* a card showing a code that is none of 0, 1, 2
C7_Witness ==
  shown.rendered /\ shown.state \notin {0, 1, 2} /\ shown.status.text = "Unknown"

----------------------------------------------------------------------------
(* Properties of entity identity and of the ids createRound returns. *)

Joins == {i \in 1..Len(calls) : calls[i].kind = "joinRound" /\ PassedAccountCheck(calls[i])}

\* the entity id under which a joinRound invocation stores its record, line 103
JoinEntityId(c) == generateEntityId(c.acct)

\* C5: the entity id of joinRound's RoundPlayer record is derived from the
\* account and the round, so two joinRound calls of one account for different
\* rounds address different entities.
C5_EntityIdFromBothKeys ==
  \A i, j \in Joins :
    (calls[i].acct = calls[j].acct /\ calls[i].arg # calls[j].arg) =>
      JoinEntityId(calls[i]) # JoinEntityId(calls[j])

\* the createRound invocations that returned, their own round having been
\* executed by the contract before they read the id (the counter only grows, so
\* that is the case exactly when the id read is not below the round's own id)
Creates ==
  {i \in 1..Len(calls) :
     /\ calls[i].kind = "createRound"
     /\ calls[i].outcome = "returned"
     /\ calls[i].mined # 0
     /\ calls[i].mined <= calls[i].value}

\* the id of the RoundCreated entity of a createRound that returned, line 73
EventEntityId(c) == getEntityIdFromKeys(<<c.value, c.at>>)

\* C6: every createRound that returned has left a RoundCreated entity with the
\* returned round id and the caller as creator, under an id made of the round id
\* and the creation time; that id is not the id of the round's Rounds entity,
\* and no two createRound invocations share a RoundCreated entity.
C6_RoundCreatedPerInvocation ==
  /\ \A i \in Creates :
       LET c == calls[i] IN
         /\ Has(entities, EventEntityId(c))
         /\ entities[EventEntityId(c)].model = "RoundCreated"
         /\ entities[EventEntityId(c)].round_id = c.value
         /\ entities[EventEntityId(c)].creator = c.acct
         /\ EventEntityId(c) # getEntityIdFromKeys(<<c.value>>)
  /\ \A i, j \in Creates :
       i # j => EventEntityId(calls[i]) # EventEntityId(calls[j])

\* C9: createRound reads the id with getRoundId only after its createRound
\* action resolved, the id it returns is the id of the round this invocation
\* created, and no two invocations return the same id.
C9_ReturnsOwnRoundId ==
  /\ \A i \in 1..Len(calls) :
       \A g \in Submissions(calls[i].trace, "getRoundId") :
         \E k \in Submissions(calls[i].trace, "createRound") : k < g
  /\ \A i \in Creates : calls[i].value = calls[i].mined
  /\ \A i, j \in Creates : i # j => calls[i].value # calls[j].value

\* invocation i, a joinRound that ran with no other invocation in flight,
\* returns in this step
JoinReturnsNow(i) ==
  /\ calls[i].kind = "joinRound"
  /\ InFlight(calls[i])
  /\ calls'[i].outcome = "returned"
  /\ calls[i].alone

HasRoundPlayer(ents, addr, roundId) ==
  \E id \in DOMAIN ents :
    /\ ents[id].model = "RoundPlayer"
    /\ ents[id].player_to_round_id = <<addr, roundId>>
    /\ ents[id].joined
    /\ ~ents[id].ready_state

\* C10: when joinRound(r) returns for account a, the store holds a RoundPlayer
\* record with player_to_round_id = [a, r], joined = true, ready_state = false,
\* whatever the store held before.
C10_JoinLeavesItsRecord ==
  [][\A i \in 1..Len(calls) :
       JoinReturnsNow(i) => HasRoundPlayer(entities', calls[i].acct, calls[i].arg)]_vars

\* with no third invocation, two invocations neither of which ran alone were
\* in flight at the same time
Overlapped(i, j) ==
  /\ i # j
  /\ Len(calls) = 2
  /\ ~calls[i].alone
  /\ ~calls[j].alone

\* C11: when two joinRound invocations of one account were in flight at the
\* same time and one failed while the other succeeded, then once both are over
\* the store holds the RoundPlayer record of the successful join.
C11_FailedJoinSparesOtherJoin ==
  \A i, j \in Joins :
    (/\ Overlapped(i, j)
     /\ calls[i].acct = calls[j].acct
     /\ Done(calls[i]) /\ Done(calls[j])
     /\ calls[i].rejected # ""
     /\ calls[j].outcome = "returned") =>
      HasRoundPlayer(entities, calls[j].acct, calls[j].arg)

\* C12: whenever the modal invokes joinRound with round id r, the round loaded
\* in the modal, whose state and membership enabled the join button, is the
\* round that was queried for that same id r.
C12_JoinsTheRoundItLoaded ==
  [][JoinInvokedNow =>
       /\ modal.round.loaded
       /\ modal.round.round_id = calls'[Len(calls')].arg]_vars

\* this step is a call of startRound that passed the account check
StartInvokedNow ==
  /\ Len(calls') = Len(calls) + 1
  /\ calls'[Len(calls')].kind = "startRound"
  /\ PassedAccountCheck(calls'[Len(calls')])

\* the Rounds entity of roundId is in the store, in the waiting state
WaitingRound(ents, roundId) ==
  LET id == getEntityIdFromKeys(<<roundId>>)
  IN /\ Has(ents, id)
     /\ ents[id].model = "Rounds"
     /\ ents[id].state = 0

\* C13: startRound's optimistic patch sets state = 1 and refreshes start_time
\* on the Rounds entity of roundId only when that round is in state 0; it
\* leaves a round in state 1 or 2 as it is, and it creates no entity when the
\* round is absent from the store.
C13_StartsOnlyWaitingRounds ==
  [][StartInvokedNow =>
       LET roundId == calls'[Len(calls')].arg
           id == getEntityIdFromKeys(<<roundId>>)
       IN IF WaitingRound(entities, roundId)
            THEN entities' = [entities EXCEPT ![id].state = 1, ![id].start_time = now]
            ELSE entities' = entities]_vars

\* this step is a call of createRound, joinRound or startRound
InvokedNow == Len(calls') = Len(calls) + 1

\* C14: when no account is available, a call of createRound, joinRound or
\* startRound ends at once by throwing 'Account not available': it submits no
\* remote action, draws no transaction id, calls none of applyOptimisticUpdate,
\* revertOptimisticUpdate and confirmTransaction, and leaves the entity store
\* and the pending transactions as they were.
C14_NoAccountNoEffect ==
  [][(account = NoAccount /\ InvokedNow) =>
       LET c == calls'[Len(calls')]
       IN /\ Done(c)
          /\ c.outcome = "threw"
          /\ c.err = AccountError
          /\ c.trace = <<>>
          /\ nextUuid' = nextUuid
          /\ entities' = entities
          /\ pendingTransactions' = pendingTransactions]_vars

\* a startRound refused for want of an account while an earlier invocation,
\* made when an account was connected, still has its transaction pending
C14_Witness ==
  \E i, j \in 1..Len(calls) :
    /\ i < j
    /\ InFlight(calls[i])
    /\ Has(pendingTransactions, calls[i].tx)
    /\ calls[j].kind = "startRound"
    /\ ~PassedAccountCheck(calls[j])
    /\ calls[j].err = AccountError
    /\ account = NoAccount

\* handleJoin, awaiting joinRound until this step, is over after it
HandleJoinEndsNow == modal.joinCall # 0 /\ modal'.joinCall = 0

\* C15: handleJoin calls closeModal exactly when its joinRound call returned,
\* and not before the call is over; when the call threw, the modal stays open,
\* the error is logged and does not leave handleJoin, and the entered code and
\* the round id are what they were when Join was clicked.
C15_ClosesOnlyAfterSuccess ==
  /\ [](modal.joinCall # 0 => modal.open)
  /\ [][HandleJoinEndsNow =>
          LET c == calls[modal.joinCall]
          IN /\ Done(c)
             /\ ~modal'.open <=> c.outcome = "returned"
             /\ c.outcome = "threw" =>
                  /\ modal'.open
                  /\ modal'.logged = c.err
                  /\ modal'.roundId = c.arg]_vars
  /\ [][(modal.open /\ ~modal'.open /\ modal.joinCall # 0) =>
          (HandleJoinEndsNow /\ calls[modal.joinCall].outcome = "returned")]_vars
  /\ [][modal.joinCall # 0 =>
          /\ modal'.code = modal.code
          /\ modal'.roundId = modal.roundId
          /\ modal'.escaped = ""]_vars

\* a first join was rejected and logged with the modal left open, and a second
\* join, clicked in that modal, returned and closed it
C15_Witness ==
  /\ Len(calls) = 2
  /\ calls[1].kind = "joinRound" /\ calls[1].rejected # ""
  /\ calls[2].kind = "joinRound" /\ calls[2].outcome = "returned"
  /\ modal.logged = calls[1].err
  /\ modal.joinCall = 0
  /\ ~modal.open

====
